---- MODULE Spec2Model ----
(***************************************************************************)
(* Resume analysis: the Flask prototype's ResumeAnalyzer and upload route  *)
(* (src/resume_analytics/analyzer.py) and the Streamlit application's      *)
(* upload handling (src/app.py).                                           *)
(*                                                                         *)
(* A document is a sequence of spaCy tokens, each token a string.  The     *)
(* text of a document is its tokens joined by single spaces, except that   *)
(* the token "." is written attached to the token before it.               *)
(***************************************************************************)
EXTENDS Integers, Sequences, FiniteSets, TLC

VARIABLES
    \* _calculate_profile_score applied to drawn metrics
    word_count, sentence_count, skills_count, experience_years,
    score_parts, profile_score, suggestions, score_pc,
    \* the token-level helpers applied to a drawn document
    doc, doc_pc, experience_result, skills_result,
    \* the Flask route upload_file: the uploads folder, the requests being
    \* handled, and the wall clock datetime.now() reads
    uploads, reqs, clock,
    \* the Streamlit page render_analyzer: the uploaded file, the selected
    \* role, the position in _handle_file_upload, the extracted text, the
    \* analysis, what the page has shown, and the calls made in this run
    file, role_info, app_pc, text, extract_failed, analysis, shown, log,
    \* the Streamlit session: st.session_state.page and .initial_load, whether
    \* st.rerun() has asked for the next run, the renderer the last run
    \* reached, the page the most recent navigation selected, and how often
    \* the initial load has forced the page
    page, initial_load, rerun_requested, rendered, last_navigation, home_forced

scoreVars == <<word_count, sentence_count, skills_count, experience_years,
               score_parts, profile_score, suggestions, score_pc>>
docVars == <<doc, doc_pc, experience_result, skills_result>>
flaskVars == <<uploads, reqs, clock>>
navVars == <<page, initial_load, rerun_requested, rendered, last_navigation,
             home_forced>>
appVars == <<file, role_info, app_pc, text, extract_failed, analysis, shown,
             log, navVars>>
vars == <<scoreVars, docVars, flaskVars, appVars>>

----------------------------------------------------------------------------
(* Bounds of the model. *)

MaxWords == 301
MaxSentences == 1
MaxSkills == 9
MaxYears == 6
MaxLen == 4
MaxClock == 1

----------------------------------------------------------------------------
(* The literals of _calculate_profile_score. *)

WORD_TARGET == 300
WORD_CAP == 25
SKILLS_TARGET == 8
SKILLS_CAP == 35
EXP_TARGET == 5
EXP_CAP == 40
SCORE_MAX == 100

(* Scores are rationals; a component is held as its numerator over         *)
(* ScoreScale, which every target divides, so the arithmetic is exact.     *)
ScoreScale == WORD_TARGET * SKILLS_TARGET * EXP_TARGET

Min(a, b) == IF a <= b THEN a ELSE b
Max(a, b) == IF a >= b THEN a ELSE b

(* Python's round() on num/den: to the nearest integer, a tie to the even  *)
(* one.  \div floors and % is non-negative, as // and % are in Python.     *)
RoundHalfEven(num, den) ==
    LET q == num \div den
        r == num % den
    IN  IF 2 * r < den THEN q
        ELSE IF 2 * r > den THEN q + 1
        ELSE IF q % 2 = 0 THEN q ELSE q + 1

(* Word count scoring (0-25 points), over ScoreScale. *)
(* Mutation: the skills weight used for the words below the target. *)
WordPartWrongWeight(wc) ==
    IF wc >= WORD_TARGET THEN WORD_CAP * ScoreScale
    ELSE (wc * SKILLS_CAP * ScoreScale) \div WORD_TARGET

(* Mutation: word_count // 300 in place of word_count / 300. *)
WordPartFloorDivision(wc) ==
    IF wc >= WORD_TARGET THEN WORD_CAP * ScoreScale
    ELSE (wc \div WORD_TARGET) * WORD_CAP * ScoreScale

WordPart(wc) ==
    IF wc >= WORD_TARGET THEN WORD_CAP * ScoreScale
    ELSE (wc * WORD_CAP * ScoreScale) \div WORD_TARGET

(* Skills scoring (0-35 points), over ScoreScale. *)
SkillsPart(sk) ==
    IF sk >= SKILLS_TARGET THEN SKILLS_CAP * ScoreScale
    ELSE (sk * SKILLS_CAP * ScoreScale) \div SKILLS_TARGET

(* Experience scoring (0-40 points), over ScoreScale. *)
(* Mutation: the experience points subtracted (score -= ...). *)
ExperiencePartSubtracted(ey) ==
    IF ey >= EXP_TARGET THEN 0 - EXP_CAP * ScoreScale
    ELSE 0 - ((ey * EXP_CAP * ScoreScale) \div EXP_TARGET)

ExperiencePart(ey) ==
    IF ey >= EXP_TARGET THEN EXP_CAP * ScoreScale
    ELSE (ey * EXP_CAP * ScoreScale) \div EXP_TARGET

(* The three additions to the local `score`, in the order of the code. *)
ScoreParts(wc, sk, ey) ==
    [word |-> WordPart(wc), skills |-> SkillsPart(sk),
     experience |-> ExperiencePart(ey)]

(* _calculate_profile_score: sentence_count is a parameter it never reads. *)
_calculate_profile_score(wc, sc, sk, ey) ==
    LET p == ScoreParts(wc, sk, ey)
        score == p.word + p.skills + p.experience
    IN  Min(RoundHalfEven(score, ScoreScale), SCORE_MAX)

----------------------------------------------------------------------------
(* _calculate_profile_score applied to drawn metrics. *)

NoScore == -1

WordCounts == (0 .. MaxWords) \cup {WORD_TARGET * 10}

CalculateProfileScore ==
    /\ score_pc = "input"
    /\ score_parts' = ScoreParts(word_count, skills_count, experience_years)
    /\ profile_score' = _calculate_profile_score(
            word_count, sentence_count, skills_count, experience_years)
    /\ score_pc' = "scored"
    /\ UNCHANGED <<word_count, sentence_count, skills_count, experience_years>>
    /\ UNCHANGED suggestions
    /\ UNCHANGED <<docVars, flaskVars, appVars>>

----------------------------------------------------------------------------
(* The tokens documents are drawn from, and what spaCy and Python say of   *)
(* each: strings are atoms here, so the string functions are tables.       *)

Tokens ==
    {"5", "2", "five", "years", "Yearly", "Python", "python", ".",
     "java", "javascript", "Machine", "learning"}

Docs == UNION {[1 .. n -> Tokens] : n \in 0 .. MaxLen}

(* str.lower() *)
Lower(tok) ==
    CASE tok = "Python" -> "python"
      [] tok = "SQL" -> "sql"
      [] tok = "Java" -> "java"
      [] tok = "Yearly" -> "yearly"
      [] tok = "Machine" -> "machine"
      [] OTHER -> tok

(* token.like_num: digits, or a number word *)
like_num(tok) == tok \in {"5", "2", "five"}

(* int(token.text) returns for a decimal literal and raises ValueError for *)
(* a number word *)
IntParses(tok) == tok \in {"5", "2"}

IntOf(tok) ==
    CASE tok = "5" -> 5
      [] tok = "2" -> 2

(* "year" in s *)
ContainsYear(s) == s \in {"year", "years", "yearly", "yearsn"}

(* _analyze_experience: the loop over the tokens, i the 1-based position   *)
(* of the token (token.i + 1), acc the local experience_years.             *)
(* Mutation: experience_years = int(token.text), without max. *)
RECURSIVE ExperienceLoopLastWins(_, _, _)
ExperienceLoopLastWins(d, i, acc) ==
    IF i > Len(d) THEN acc
    ELSE IF like_num(d[i]) /\ i < Len(d)
              /\ ContainsYear(Lower(d[i + 1])) /\ IntParses(d[i])
         THEN ExperienceLoopLastWins(d, i + 1, IntOf(d[i]))
         ELSE ExperienceLoopLastWins(d, i + 1, acc)

RECURSIVE ExperienceLoop(_, _, _)
ExperienceLoop(d, i, acc) ==
    IF i > Len(d) THEN acc
    ELSE IF like_num(d[i]) /\ i < Len(d)
         THEN IF ContainsYear(Lower(d[i + 1]))
              THEN IF IntParses(d[i])
                   THEN ExperienceLoop(d, i + 1, Max(acc, IntOf(d[i])))
                   ELSE ExperienceLoop(d, i + 1, acc)
              ELSE ExperienceLoop(d, i + 1, acc)
         ELSE ExperienceLoop(d, i + 1, acc)

_analyze_experience(d) == ExperienceLoop(d, 1, 0)

(* _extract_skills *)
tech_skills ==
    {"python", "java", "javascript", "react", "node.js", "sql",
     "html", "css", "aws", "docker", "kubernetes", "git",
     "machine learning", "ai", "data science", "analytics"}

(* Mutation: the bigram test stops one token early (len(doc) - 2). *)
RECURSIVE SkillsLoopShortBigram(_, _, _)
SkillsLoopShortBigram(d, i, skills) ==
    IF i > Len(d) THEN skills
    ELSE LET single == IF Lower(d[i]) \in tech_skills THEN {d[i]} ELSE {}
             bigram == IF i < Len(d) - 1
                       THEN Lower(d[i]) \o " " \o Lower(d[i + 1])
                       ELSE ""
             pair == IF i < Len(d) - 1 /\ bigram \in tech_skills
                     THEN {bigram} ELSE {}
         IN  SkillsLoopShortBigram(d, i + 1, skills \cup single \cup pair)

RECURSIVE SkillsLoop(_, _, _)
SkillsLoop(d, i, skills) ==
    IF i > Len(d) THEN skills
    ELSE LET single == IF Lower(d[i]) \in tech_skills THEN {d[i]} ELSE {}
             bigram == IF i < Len(d)
                       THEN Lower(d[i]) \o " " \o Lower(d[i + 1])
                       ELSE ""
             pair == IF i < Len(d) /\ bigram \in tech_skills
                     THEN {bigram} ELSE {}
         IN  SkillsLoop(d, i + 1, skills \cup single \cup pair)

_extract_skills(d) == SkillsLoop(d, 1, {})

----------------------------------------------------------------------------
(* The token-level helpers applied to a drawn document. *)

AnalyzeExperience ==
    /\ "experience" \notin doc_pc
    /\ doc_pc # {"idle"}
    /\ experience_result' = _analyze_experience(doc)
    /\ doc_pc' = doc_pc \cup {"experience"}
    /\ UNCHANGED <<doc, skills_result>>
    /\ UNCHANGED <<scoreVars, flaskVars, appVars>>

ExtractSkills ==
    /\ "skills" \notin doc_pc
    /\ doc_pc # {"idle"}
    /\ skills_result' = _extract_skills(doc)
    /\ doc_pc' = doc_pc \cup {"skills"}
    /\ UNCHANGED <<doc, experience_result>>
    /\ UNCHANGED <<scoreVars, flaskVars, appVars>>

----------------------------------------------------------------------------
(* The document classifier of the analysis engine: at least two distinct   *)
(* resume-section keywords and no cover-letter salutation make a resume; a *)
(* text shorter than the minimum length is unknown.                        *)

MIN_TEXT_LENGTH == 2
ResumeSectionKeywords == {"experience", "education", "skills", "projects"}
CoverLetterMarkers == {"dear", "sincerely"}

Classify(resume_text) ==
    LET words == {Lower(resume_text[i]) : i \in 1 .. Len(resume_text)}
    IN  IF Len(resume_text) < MIN_TEXT_LENGTH THEN "unknown"
        ELSE IF words \cap CoverLetterMarkers # {} THEN "cover_letter"
        ELSE IF Cardinality(words \cap ResumeSectionKeywords) >= 2
             THEN "resume"
        ELSE "other"

----------------------------------------------------------------------------
(* analyze_resume and the route upload_file. *)

(* len(resume_text.split()): the tokens but "." are the words, and a text  *)
(* that starts with "." starts with a word made of dots.                   *)
RECURSIVE CountTokens(_, _, _)
CountTokens(d, i, dots) ==
    IF i > Len(d) THEN 0
    ELSE (IF (d[i] = ".") = dots THEN 1 ELSE 0) + CountTokens(d, i + 1, dots)

WordCount(d) ==
    CountTokens(d, 1, FALSE) + (IF d # <<>> /\ d[1] = "." THEN 1 ELSE 0)

(* len(list(doc.sents)): a sentence ends at each "." and at the end of a   *)
(* text that does not end with one.                                        *)
SentenceCount(d) ==
    CountTokens(d, 1, TRUE) + (IF d # <<>> /\ d[Len(d)] # "." THEN 1 ELSE 0)

(* Mutation: the experience suggestion is left out. *)
_generate_suggestions_no_experience(wc, sc, skills, ey) ==
    LET listed ==
            (IF wc < 300 THEN <<"fa-file-text">> ELSE <<>>)
            \o (IF Cardinality(skills) < 8 THEN <<"fa-code">> ELSE <<>>)
            \o (IF sc < 10 THEN <<"fa-list">> ELSE <<>>)
    IN  IF listed = <<>> THEN <<"fa-star">> ELSE listed

(* _generate_suggestions: the icons of the suggestions, in order; fa-star  *)
(* is the icon of "Your resume looks great!".                              *)
_generate_suggestions(wc, sc, skills, ey) ==
    LET listed ==
            (IF wc < 300 THEN <<"fa-file-text">> ELSE <<>>)
            \o (IF Cardinality(skills) < 8 THEN <<"fa-code">> ELSE <<>>)
            \o (IF sc < 10 THEN <<"fa-list">> ELSE <<>>)
            \o (IF ey < 2 THEN <<"fa-briefcase">> ELSE <<>>)
    IN  IF listed = <<>> THEN <<"fa-star">> ELSE listed

(* The sentence counts drawn: the small ones and the two around the        *)
(* threshold of _generate_suggestions.                                     *)
SentenceCounts == (0 .. MaxSentences) \cup {9, 10}

(* analyze_resume, line 45: the suggestions for the metrics just scored;   *)
(* of the skills only their number is read.                                *)
GenerateSuggestions ==
    /\ score_pc = "scored"
    /\ suggestions' = _generate_suggestions(
            word_count, sentence_count, 1 .. skills_count, experience_years)
    /\ score_pc' = "suggested"
    /\ UNCHANGED <<word_count, sentence_count, skills_count, experience_years>>
    /\ UNCHANGED <<score_parts, profile_score>>
    /\ UNCHANGED <<docVars, flaskVars, appVars>>

(* analyze_resume at time `now`; "skills" is list(skills), held as the set *)
(* it lists.                                                               *)
analyze_resume(resume_text, now) ==
    LET wc == WordCount(resume_text)
        sc == SentenceCount(resume_text)
        skills == _extract_skills(resume_text)
        years == _analyze_experience(resume_text)
    IN  [timestamp |-> now,
         metrics |->
            [word_count |-> wc,
             sentence_count |-> sc,
             skills_count |-> Cardinality(skills),
             experience_years |-> years,
             profile_score |->
                _calculate_profile_score(wc, sc, Cardinality(skills), years)],
         skills |-> skills,
         suggestions |-> _generate_suggestions(wc, sc, skills, years)]

(* The helpers analyze_resume calls on every text, in order. *)
AnalyzeResumeCalls ==
    <<"_extract_skills", "_analyze_experience", "_calculate_profile_score",
      "_generate_suggestions">>

Requests == {"r1", "r2"}
Filenames == {"cv.txt", "resume.txt"}

EmptyText == <<>>
CoverLetter == <<"dear", "python", "5", "years">>
ShortResume == <<"experience", "education", "2", "years">>
Contents == {EmptyText, CoverLetter, ShortResume}

(* The characters of the words of the uploaded texts. *)
Spelling(tok) ==
    CASE tok = "dear" -> <<"d", "e", "a", "r">>
      [] tok = "python" -> <<"p", "y", "t", "h", "o", "n">>
      [] tok = "5" -> <<"5">>
      [] tok = "years" -> <<"y", "e", "a", "r", "s">>
      [] tok = "experience" -> <<"e", "x", "p", "e", "r", "i", "e", "n", "c", "e">>
      [] tok = "education" -> <<"e", "d", "u", "c", "a", "t", "i", "o", "n">>
      [] tok = "2" -> <<"2">>

(* The bytes of an uploaded text: its words, one space between them. *)
RECURSIVE Encode(_)
Encode(t) ==
    IF t = <<>> THEN <<>>
    ELSE IF Len(t) = 1 THEN Spelling(t[1])
    ELSE (Spelling(t[1]) \o <<" ">>) \o Encode(Tail(t))

(* The words of a text of letters, digits and spaces, as both              *)
(* resume_text.split() and self.nlp(resume_text) give them: word is the    *)
(* word being read, acc the words read.                                    *)
RECURSIVE Split(_, _, _, _)
Split(chars, i, word, acc) ==
    LET ended == IF word = "" THEN acc ELSE Append(acc, word)
    IN  IF i > Len(chars) THEN ended
        ELSE IF chars[i] = " " THEN Split(chars, i + 1, "", ended)
        ELSE Split(chars, i + 1, word \o chars[i], acc)

Tokenize(chars) == Split(chars, 1, "", <<>>)

(* A write of data at offset 0 of a file holding old: the bytes of old     *)
(* beyond the data stay.                                                   *)
WriteAtStart(old, data) == data \o SubSeq(old, Len(data) + 1, Len(old))

NoResult == [status |-> "none"]

IdleRequest ==
    [pc |-> "idle", has_file |-> FALSE, filename |-> "", content |-> <<>>,
     bufsize |-> 0, buf |-> <<>>,
     resume_text |-> <<>>, calls |-> <<>>, result |-> NoResult,
     response |-> "none"]

(* A POST /upload arrives: with or without the form field 'resume', and    *)
(* with the browser's file name, empty when no file was chosen.            *)
FlaskReceive(r) ==
    /\ reqs[r].pc = "idle"
    /\ \E has_file \in BOOLEAN, filename \in Filenames \cup {""},
          content \in Contents :
          reqs' = [reqs EXCEPT ![r] =
                      [IdleRequest EXCEPT !.pc = "received",
                                          !.has_file = has_file,
                                          !.filename = filename,
                                          !.content = content]]
    /\ UNCHANGED <<uploads, clock>>
    /\ UNCHANGED <<scoreVars, docVars, appVars>>

(* upload_file, lines 151-156: no field, or no file name. *)
FlaskRedirect(r) ==
    /\ reqs[r].pc = "received"
    /\ ~reqs[r].has_file \/ reqs[r].filename = ""
    /\ reqs' = [reqs EXCEPT ![r].pc = "done", ![r].response = "redirect"]
    /\ UNCHANGED <<uploads, clock>>
    /\ UNCHANGED <<scoreVars, docVars, appVars>>

(* upload_file, lines 158-160: file.save(file_path) opens the path for     *)
(* writing, which creates the file or truncates the one there.             *)
FlaskSaveOpen(r) ==
    /\ reqs[r].pc = "received"
    /\ reqs[r].has_file /\ reqs[r].filename # ""
    /\ uploads' = [f \in DOMAIN uploads \cup {reqs[r].filename} |->
                      IF f = reqs[r].filename THEN <<>> ELSE uploads[f]]
    /\ reqs' = [reqs EXCEPT ![r].pc = "saving"]
    /\ UNCHANGED clock
    /\ UNCHANGED <<scoreVars, docVars, appVars>>

(* upload_file, line 160: file.save copies the stream, shorter than one    *)
(* buffer, into the opened file and closes it; the bytes land at offset 0  *)
(* of whatever the file holds by then.                                     *)
FlaskSaveWrite(r) ==
    /\ reqs[r].pc = "saving"
    /\ uploads' = [uploads EXCEPT
                      ![reqs[r].filename] =
                          WriteAtStart(@, Encode(reqs[r].content))]
    /\ reqs' = [reqs EXCEPT ![r].pc = "saved"]
    /\ UNCHANGED clock
    /\ UNCHANGED <<scoreVars, docVars, appVars>>

(* f.read() reads to the end of the file (FileIO.readall): the buffer      *)
(* starts one byte longer than the size fstat gave, or at SMALLCHUNK when  *)
(* fstat gave 0, and once full grows by new_buffersize.                    *)
SMALLCHUNK == 8192
BIGCHUNK == 65536

new_buffersize(currentsize) ==
    LET addend == IF currentsize > BIGCHUNK THEN currentsize \div 8
                  ELSE 256 + currentsize
    IN  currentsize + (IF addend < SMALLCHUNK THEN SMALLCHUNK ELSE addend)

(* The buffer size readall starts with, for a file of `end` bytes read     *)
(* from offset 0.                                                          *)
initial_buffersize(end) == IF end > 0 THEN end + 1 ELSE SMALLCHUNK

(* upload_file, lines 163-164: open(file_path, 'r'), and the fstat at the  *)
(* start of f.read().                                                      *)
FlaskReadOpen(r) ==
    /\ reqs[r].pc = "saved"
    /\ reqs' = [reqs EXCEPT ![r].pc = "reading",
                            ![r].bufsize = initial_buffersize(
                                               Len(uploads[reqs[r].filename])),
                            ![r].buf = <<>>]
    /\ UNCHANGED <<uploads, clock>>
    /\ UNCHANGED <<scoreVars, docVars, appVars>>

(* upload_file, line 164: one read() system call of f.read(), at the       *)
(* offset of the bytes read so far, for the room left in the buffer; a     *)
(* read that returns nothing ends f.read().                                *)
FlaskRead(r) ==
    /\ reqs[r].pc = "reading"
    /\ LET stored == uploads[reqs[r].filename]
           bytes_read == Len(reqs[r].buf)
           size == IF bytes_read >= reqs[r].bufsize
                   THEN new_buffersize(bytes_read) ELSE reqs[r].bufsize
           n == Min(size - bytes_read, Max(0, Len(stored) - bytes_read))
       IN  IF n = 0
           THEN reqs' = [reqs EXCEPT ![r].pc = "read",
                                     ![r].resume_text = reqs[r].buf,
                                     ![r].bufsize = 0,
                                     ![r].buf = <<>>]
           ELSE reqs' = [reqs EXCEPT
                            ![r].bufsize = size,
                            ![r].buf = @ \o SubSeq(stored, bytes_read + 1,
                                                   bytes_read + n)]
    /\ UNCHANGED <<uploads, clock>>
    /\ UNCHANGED <<scoreVars, docVars, appVars>>

(* upload_file, lines 166-169: a fresh ResumeAnalyzer analyses the text    *)
(* read and the result page is rendered.                                   *)
FlaskAnalyze(r) ==
    /\ reqs[r].pc = "read"
    /\ reqs' = [reqs EXCEPT
                   ![r].pc = "done",
                   ![r].calls = AnalyzeResumeCalls,
                   ![r].result = analyze_resume(
                                     Tokenize(reqs[r].resume_text), clock),
                   ![r].response = "result"]
    /\ UNCHANGED <<uploads, clock>>
    /\ UNCHANGED <<scoreVars, docVars, appVars>>

(* The response is sent; the saved file stays in the uploads folder. *)
FlaskRespond(r) ==
    /\ reqs[r].pc = "done"
    /\ reqs' = [reqs EXCEPT ![r] = IdleRequest]
    /\ UNCHANGED <<uploads, clock>>
    /\ UNCHANGED <<scoreVars, docVars, appVars>>

(* Time passes. *)
Tick ==
    /\ clock < MaxClock
    /\ clock' = clock + 1
    /\ UNCHANGED <<uploads, reqs>>
    /\ UNCHANGED <<scoreVars, docVars, appVars>>

----------------------------------------------------------------------------
(* The analysis engine app.py imports (utils.resume_analyzer) and the role *)
(* catalogue (config.job_roles): classification first, then the keyword    *)
(* matcher and the score aggregator for a resume only.                     *)

BackendRole ==
    [role_name |-> "Backend Developer",
     required_skills |-> {"Python", "SQL", "Java"}]
OpenRole == [role_name |-> "Volunteer", required_skills |-> {}]
JOB_ROLES == {BackendRole, OpenRole}

(* A float, held as a fraction. *)
Float(num, den) == [num |-> num, den |-> den]

(* Mutation: the percentage is not rounded. *)
MatchKeywordsUnrounded(resume_text, required_skills) ==
    LET words == {Lower(resume_text[i]) : i \in 1 .. Len(resume_text)}
        matched == {k \in required_skills : Lower(k) \in words}
    IN  [score |-> IF required_skills = {} THEN Float(0, 1)
                   ELSE Float(Cardinality(matched) * 100,
                              Cardinality(required_skills)),
         matched_skills |-> matched,
         missing_skills |-> required_skills \ matched]

(* Mutation: a skill is missing when its exact spelling is not in the text. *)
MatchKeywordsMissingBySpelling(resume_text, required_skills) ==
    LET words == {Lower(resume_text[i]) : i \in 1 .. Len(resume_text)}
        spelled == {resume_text[i] : i \in 1 .. Len(resume_text)}
        matched == {k \in required_skills : Lower(k) \in words}
    IN  [score |-> IF required_skills = {} THEN Float(0, 1)
                   ELSE Float(RoundHalfEven(Cardinality(matched) * 100,
                                            Cardinality(required_skills)), 1),
         matched_skills |-> matched,
         missing_skills |-> {k \in required_skills : k \notin spelled}]

(* The score is a float holding the percentage rounded to the nearest      *)
(* integer; skills are compared in lower case and listed as the role       *)
(* spells them.                                                            *)
MatchKeywords(resume_text, required_skills) ==
    LET words == {Lower(resume_text[i]) : i \in 1 .. Len(resume_text)}
        matched == {k \in required_skills : Lower(k) \in words}
    IN  [score |-> IF required_skills = {} THEN Float(0, 1)
                   ELSE Float(RoundHalfEven(Cardinality(matched) * 100,
                                            Cardinality(required_skills)), 1),
         matched_skills |-> matched,
         missing_skills |-> required_skills \ matched]

EngineAnalyze(resume_text, role) ==
    LET document_type == Classify(resume_text)
        keyword_match == MatchKeywords(resume_text, role.required_skills)
    IN  IF document_type # "resume"
        THEN [document_type |-> document_type]
        ELSE [document_type |-> document_type,
              ats_score |->
                 _calculate_profile_score(
                     WordCount(resume_text), SentenceCount(resume_text),
                     Cardinality(keyword_match.matched_skills),
                     _analyze_experience(resume_text)),
              keyword_match |-> keyword_match,
              metrics |->
                 [word_count |-> WordCount(resume_text),
                  sentence_count |-> SentenceCount(resume_text),
                  skills_count |-> Cardinality(keyword_match.matched_skills),
                  experience_years |-> _analyze_experience(resume_text)]]

EngineCalls(resume_text) ==
    IF Classify(resume_text) # "resume" THEN <<"classify">>
    ELSE <<"classify", "match_keywords", "aggregate_score">>

(* What extract_text_from_pdf / extract_text_from_docx do with a stream    *)
(* read from position pos: raise on a zero-length or corrupt stream, give  *)
(* no text for a document without a text layer, else give its text.  The   *)
(* stream is read to its end, where it is left.                            *)
ParserOutcome(f, pos) ==
    IF f.data = <<>> \/ f.parse = "corrupt"
    THEN [raised |-> TRUE, text |-> <<>>, pos |-> Len(f.data)]
    ELSE IF f.parse = "blank"
    THEN [raised |-> FALSE, text |-> <<>>, pos |-> Len(f.data)]
    ELSE [raised |-> FALSE, text |-> SubSeq(f.data, pos + 1, Len(f.data)),
          pos |-> Len(f.data)]

----------------------------------------------------------------------------
(* app.py: render_analyzer and _handle_file_upload. *)

PDF == "application/pdf"
DOCX == "application/vnd.openxmlformats-officedocument.wordprocessingml.document"
FILE_TYPES == {PDF, DOCX}
OtherTypes == {"text/plain"}

SkilledResume == <<"experience", "education", "python", "sql">>
JavaResume == <<"experience", "education", "Java">>
FileData == Contents \cup {SkilledResume, JavaResume}

(* No run has rendered a page, no navigation has happened. *)
NotSet == "<not set>"

NoFile == [type |-> "", data |-> <<>>, parse |-> "text", pos |-> 0]
NoAnalysis == [status |-> "none"]
NothingShown == [status |-> "none"]

IdleApp ==
    /\ file = NoFile
    /\ role_info = OpenRole
    /\ app_pc = "idle"
    /\ text = <<>>
    /\ extract_failed = FALSE
    /\ analysis = NoAnalysis
    /\ shown = NothingShown
    /\ log = <<>>
    /\ page = "home"
    /\ initial_load = TRUE
    /\ rerun_requested = FALSE
    /\ rendered = NotSet
    /\ last_navigation = NotSet
    /\ home_forced = 0

(* render_analyzer, lines 273-290: a role is selected and a file uploaded. *)
(* Its type is the MIME type the browser gave; parse says what a parser    *)
(* (or, for another type, bytes.decode) makes of its bytes.  The stream    *)
(* st.file_uploader returns stands at 0 when the object is new in this run *)
(* and at its end when it is the object an earlier run has read, which     *)
(* depends on the Streamlit release.                                       *)
RenderAnalyzer ==
    /\ app_pc = "start"
    /\ \E type \in FILE_TYPES \cup OtherTypes, data \in FileData,
          parse \in {"text", "blank", "corrupt"}, role \in JOB_ROLES,
          at_end \in BOOLEAN :
          /\ file' = [type |-> type, data |-> data, parse |-> parse,
                      pos |-> IF at_end THEN Len(data) ELSE 0]
          /\ role_info' = role
    /\ app_pc' = "display_file"
    /\ UNCHANGED <<text, extract_failed, analysis, shown, log>>
    /\ UNCHANGED navVars
    /\ UNCHANGED <<scoreVars, docVars, flaskVars>>

(* render_analyzer, lines 291-292: nothing uploaded. *)
RenderAnalyzerNoFile ==
    /\ app_pc = "start"
    /\ log' = Append(log, "st.info:upload")
    /\ app_pc' = "done"
    /\ UNCHANGED <<file, role_info, text, extract_failed, analysis, shown>>
    /\ UNCHANGED navVars
    /\ UNCHANGED <<scoreVars, docVars, flaskVars>>

(* _display_uploaded_file with _display_pdf_preview: the preview reads the *)
(* stream to its end and seeks back to 0 only when it read something.      *)
_display_uploaded_file ==
    /\ app_pc = "display_file"
    /\ IF file.type = PDF
       THEN LET pdf_data == SubSeq(file.data, file.pos + 1, Len(file.data))
            IN  /\ file' = [file EXCEPT
                               !.pos = IF pdf_data # <<>> THEN 0
                                       ELSE Len(file.data)]
                /\ log' = IF pdf_data # <<>>
                          THEN Append(log, "st.download_button")
                          ELSE log
       ELSE IF file.type = DOCX
       THEN /\ log' = Append(log, "st.warning:docx")
            /\ UNCHANGED file
       ELSE /\ log' = Append(log, "st.error:unsupported")
            /\ UNCHANGED file
    /\ app_pc' = "extract"
    /\ UNCHANGED <<role_info, text, extract_failed, analysis, shown>>
    /\ UNCHANGED navVars
    /\ UNCHANGED <<scoreVars, docVars, flaskVars>>

(* _extract_text_from_file, line 456: uploaded_file.seek(0) *)
(* Mutation: the stream is left where it stands. *)
SeekStartMissing(f) == f

SeekStart(f) == [f EXCEPT !.pos = 0]

(* _extract_text_from_file: the branch on the declared type.  A parser     *)
(* reads the stream from where it stands, getvalue() gives all the bytes   *)
(* and leaves the stream where it stands; any exception becomes st.error   *)
(* and the empty string.                                                   *)
ExtractOutcome(f) ==
    IF f.type \in FILE_TYPES THEN ParserOutcome(f, f.pos)
    ELSE IF f.parse = "corrupt"
    THEN [raised |-> TRUE, text |-> <<>>, pos |-> f.pos]
    ELSE [raised |-> FALSE, text |-> f.data, pos |-> f.pos]

(* _analyze_uploaded_resume, lines 426-427: if not text: return *)
(* Mutation: the return on an empty text left out. *)
StopsOnEmptyTextNever(t) == FALSE

StopsOnEmptyText(t) == t = <<>>

_extract_text_from_file ==
    /\ app_pc = "extract"
    /\ LET out == ExtractOutcome(SeekStart(file))
       IN  /\ file' = [file EXCEPT !.pos = out.pos]
           /\ text' = out.text
           /\ extract_failed' = out.raised
           /\ log' = IF out.raised
                     THEN log \o <<"_extract_text_from_file", "st.error:read">>
                     ELSE Append(log, "_extract_text_from_file")
           /\ app_pc' = IF StopsOnEmptyText(out.text) THEN "done"
                        ELSE "analyze"
    /\ UNCHANGED <<role_info, analysis, shown>>
    /\ UNCHANGED navVars
    /\ UNCHANGED <<scoreVars, docVars, flaskVars>>

(* _analyze_uploaded_resume, lines 429-432: self.analyzer.analyze_resume *)
AnalyzeUploadedResume ==
    /\ app_pc = "analyze"
    /\ analysis' = EngineAnalyze(text, role_info)
    /\ log' = (log \o <<"analyze_resume">>) \o EngineCalls(text)
    /\ app_pc' = "validate"
    /\ UNCHANGED <<file, role_info, text, extract_failed, shown>>
    /\ UNCHANGED navVars
    /\ UNCHANGED <<scoreVars, docVars, flaskVars>>

(* _validate_document_type, and the return at line 436 *)
_validate_document_type ==
    /\ app_pc = "validate"
    /\ IF ("document_type" \in DOMAIN analysis
              /\ analysis.document_type = "resume")
       THEN /\ log' = Append(log, "_validate_document_type")
            /\ app_pc' = "display_results"
       ELSE /\ log' = log \o <<"_validate_document_type",
                                "st.error:not_resume">>
            /\ app_pc' = "done"
    /\ UNCHANGED <<file, role_info, text, extract_failed, analysis, shown>>
    /\ UNCHANGED navVars
    /\ UNCHANGED <<scoreVars, docVars, flaskVars>>

(* int() of a float that is not negative: the fraction is cut off. *)
PyInt(x) == x.num \div x.den

(* _render_skills_match_card, line 574:                                    *)
(* int(analysis.get('keyword_match', {}).get('score', 0))                  *)
KeywordScoreShown(a) ==
    PyInt(IF "keyword_match" \in DOMAIN a
             /\ "score" \in DOMAIN a.keyword_match
          THEN a.keyword_match.score
          ELSE Float(0, 1))

(* _display_analysis_results: the ATS score card and the skills card *)
_display_analysis_results ==
    /\ app_pc = "display_results"
    /\ shown' = [ats_score |-> analysis.ats_score,
                 keyword_score |-> KeywordScoreShown(analysis),
                 missing_skills |-> analysis.keyword_match.missing_skills]
    /\ log' = Append(log, "_display_analysis_results")
    /\ app_pc' = "done"
    /\ UNCHANGED <<file, role_info, text, extract_failed, analysis>>
    /\ UNCHANGED navVars
    /\ UNCHANGED <<scoreVars, docVars, flaskVars>>

(* The script run has ended; the next interaction runs the script again. *)
Rerun ==
    /\ app_pc = "done"
    /\ file' = NoFile
    /\ role_info' = OpenRole
    /\ app_pc' = "run"
    /\ text' = <<>>
    /\ extract_failed' = FALSE
    /\ analysis' = NoAnalysis
    /\ shown' = NothingShown
    /\ log' = <<>>
    /\ UNCHANGED navVars
    /\ UNCHANGED <<scoreVars, docVars, flaskVars>>

----------------------------------------------------------------------------
(* app.py: the session, the sidebar and main. *)

(* _setup_pages: the sidebar buttons and the render functions behind them. *)
pages ==
    [page_name \in {"HOME", "RESUME ANALYZER"} |->
        IF page_name = "HOME" THEN "render_home" ELSE "render_analyzer"]

(* Mutation: the spaces of the name are kept. *)
_clean_page_name_keeps_spaces(page_name) ==
    CASE page_name = "HOME" -> "home"
      [] page_name = "RESUME ANALYZER" -> "resume analyzer"
      [] OTHER -> page_name

(* _clean_page_name: lower case, "_" for each space, emoji removed,        *)
(* stripped; a table, as strings are atoms here.                           *)
_clean_page_name(page_name) ==
    CASE page_name = "HOME" -> "home"
      [] page_name = "RESUME ANALYZER" -> "resume_analyzer"
      [] OTHER -> page_name

(* _get_current_page_renderer *)
_get_current_page_renderer(current_page) ==
    LET page_mapping ==
            {name \in DOMAIN pages : _clean_page_name(name) = current_page}
    IN  IF page_mapping # {}
        THEN pages[CHOOSE name \in page_mapping : TRUE]
        ELSE "render_home"

(* The button a script run finds pressed.  A run st.rerun() started finds  *)
(* none, and so does the first run of a session; "Get Started" is on the   *)
(* home page only.                                                         *)
Clicks ==
    IF rerun_requested \/ rendered = NotSet THEN {"none"}
    ELSE {"none"} \cup DOMAIN pages
         \cup (IF rendered = "render_home" THEN {"Get Started"} ELSE {})

(* ResumeApp.main, one script run up to the page renderer: the sidebar     *)
(* (a pressed button navigates and reruns), the initial load (forces the   *)
(* home page once and reruns), then the renderer of the current page;      *)
(* render_home ends the run unless "Get Started" is pressed,               *)
(* render_analyzer goes on with the upload.                                *)
main ==
    /\ app_pc = "run"
    /\ \E click \in Clicks :
          LET renderer == _get_current_page_renderer(page)
          IN  IF click \in DOMAIN pages
              THEN /\ page' = _clean_page_name(click)
                   /\ last_navigation' = click
                   /\ rerun_requested' = TRUE
                   /\ UNCHANGED <<initial_load, rendered, home_forced, app_pc>>
              ELSE IF initial_load
              THEN /\ initial_load' = FALSE
                   /\ page' = "home"
                   /\ home_forced' = home_forced + 1
                   /\ rerun_requested' = TRUE
                   /\ UNCHANGED <<rendered, last_navigation, app_pc>>
              ELSE IF renderer = "render_home" /\ click = "Get Started"
              THEN /\ page' = "resume_analyzer"
                   /\ last_navigation' = click
                   /\ rerun_requested' = TRUE
                   /\ UNCHANGED <<initial_load, rendered, home_forced, app_pc>>
              ELSE /\ rendered' = renderer
                   /\ rerun_requested' = FALSE
                   /\ app_pc' = IF renderer = "render_analyzer" THEN "start"
                                ELSE "run"
                   /\ UNCHANGED <<page, initial_load, last_navigation,
                                  home_forced>>
    /\ UNCHANGED <<file, role_info, text, extract_failed, analysis, shown, log>>
    /\ UNCHANGED <<scoreVars, docVars, flaskVars>>

----------------------------------------------------------------------------
(* The specifications.  Each runs one part of the program and holds the    *)
(* variables of the other parts at their idle values.                      *)

IdleScore ==
    /\ word_count = 0 /\ sentence_count = 0
    /\ skills_count = 0 /\ experience_years = 0
    /\ score_parts = ScoreParts(0, 0, 0)
    /\ profile_score = NoScore
    /\ suggestions = <<>>
    /\ score_pc = "idle"

IdleDoc ==
    /\ doc = <<>> /\ doc_pc = {"idle"}
    /\ experience_result = NoScore
    /\ skills_result = {}

IdleFlask ==
    /\ uploads = <<>>
    /\ reqs = [r \in Requests |-> IdleRequest]
    /\ clock = 0

InitScore ==
    /\ word_count \in WordCounts
    /\ sentence_count \in SentenceCounts
    /\ skills_count \in 0 .. MaxSkills
    /\ experience_years \in 0 .. MaxYears
    /\ score_parts = ScoreParts(0, 0, 0)
    /\ profile_score = NoScore
    /\ suggestions = <<>>
    /\ score_pc = "input"
    /\ IdleDoc /\ IdleFlask /\ IdleApp

NextScore == CalculateProfileScore \/ GenerateSuggestions

SpecScore == InitScore /\ [][NextScore]_vars

InitDoc ==
    /\ doc \in Docs
    /\ doc_pc = {}
    /\ experience_result = NoScore
    /\ skills_result = {}
    /\ IdleScore /\ IdleFlask /\ IdleApp

NextDoc == AnalyzeExperience \/ ExtractSkills

SpecDoc == InitDoc /\ [][NextDoc]_vars

InitFlask == IdleFlask /\ IdleScore /\ IdleDoc /\ IdleApp

NextFlask ==
    \/ Tick
    \/ \E r \in Requests :
          \/ FlaskReceive(r)
          \/ FlaskRedirect(r)
          \/ FlaskSaveOpen(r)
          \/ FlaskSaveWrite(r)
          \/ FlaskReadOpen(r)
          \/ FlaskRead(r)
          \/ FlaskAnalyze(r)
          \/ FlaskRespond(r)

SpecFlask == InitFlask /\ [][NextFlask]_vars

(* A new session, after the first ResumeApp() has run                      *)
(* _initialize_session_state.                                              *)
InitApp ==
    /\ file = NoFile
    /\ role_info = OpenRole
    /\ app_pc = "run"
    /\ text = <<>>
    /\ extract_failed = FALSE
    /\ analysis = NoAnalysis
    /\ shown = NothingShown
    /\ log = <<>>
    /\ page = "home"
    /\ initial_load = TRUE
    /\ rerun_requested = FALSE
    /\ rendered = NotSet
    /\ last_navigation = NotSet
    /\ home_forced = 0
    /\ IdleScore /\ IdleDoc /\ IdleFlask

NextApp ==
    \/ main
    \/ RenderAnalyzer
    \/ RenderAnalyzerNoFile
    \/ _display_uploaded_file
    \/ _extract_text_from_file
    \/ AnalyzeUploadedResume
    \/ _validate_document_type
    \/ _display_analysis_results
    \/ Rerun

SpecApp == InitApp /\ [][NextApp]_vars

----------------------------------------------------------------------------
(* Properties of _calculate_profile_score, under SpecScore. *)

\* C2: for every word count, skills count and experience years >= 0 the
\* score returned by _calculate_profile_score is an integer in [0, 100].
ScoreInRange ==
    score_pc = "scored" => profile_score \in 0 .. SCORE_MAX

ScoreInRangeWitness ==
    /\ score_pc = "scored"
    /\ word_count > WORD_TARGET
    /\ skills_count > SKILLS_TARGET
    /\ experience_years > EXP_TARGET
    /\ profile_score = SCORE_MAX

\* C8: raising the word count, the skills count or the experience years,
\* the other two held fixed, never lowers the returned score.
ScoreMonotonic ==
    score_pc = "scored" =>
        /\ \A w \in WordCounts \cup {MaxWords + 1} :
              w >= word_count =>
                 _calculate_profile_score(w, sentence_count, skills_count,
                                          experience_years) >= profile_score
        /\ \A k \in 0 .. MaxSkills + 1 :
              k >= skills_count =>
                 _calculate_profile_score(word_count, sentence_count, k,
                                          experience_years) >= profile_score
        /\ \A y \in 0 .. MaxYears + 1 :
              y >= experience_years =>
                 _calculate_profile_score(word_count, sentence_count,
                                          skills_count, y) >= profile_score

ScoreMonotonicWitness ==
    /\ score_pc = "scored"
    /\ word_count = 0
    /\ skills_count = SKILLS_TARGET - 1
    /\ experience_years = EXP_TARGET - 1
    /\ _calculate_profile_score(WORD_TARGET, sentence_count, skills_count,
                                experience_years) > profile_score
    /\ _calculate_profile_score(word_count, sentence_count, SKILLS_TARGET,
                                experience_years) > profile_score
    /\ _calculate_profile_score(word_count, sentence_count, skills_count,
                                EXP_TARGET) > profile_score

\* C9: the word-count component is 0 at 0 words, word_count/300 x 25 below
\* the 300-word target, exactly the 25-point cap at the target, and the cap
\* for every larger word count.
WordComponentRamp ==
    score_pc = "scored" =>
        /\ word_count = 0 => score_parts.word = 0
        /\ word_count < WORD_TARGET =>
              score_parts.word * WORD_TARGET
                 = word_count * WORD_CAP * ScoreScale
        /\ word_count >= WORD_TARGET =>
              score_parts.word = WORD_CAP * ScoreScale

WordComponentRampWitness ==
    /\ score_pc = "scored"
    /\ word_count = WORD_TARGET - 1
    /\ score_parts.word > (WORD_CAP - 1) * ScoreScale
    /\ score_parts.word < WORD_CAP * ScoreScale

----------------------------------------------------------------------------
(* Properties of _analyze_experience, under SpecDoc. *)

SetMax(S) == CHOOSE m \in S : \A x \in S : x <= m

(* The number a number token denotes, and the tokens "year" and "years". *)
NumberValue(tok) ==
    CASE tok = "5" -> 5
      [] tok = "2" -> 2
      [] tok = "five" -> 5

IsYearToken(tok) == Lower(tok) \in {"year", "years"}

NumberBeforeYear(d) ==
    {i \in 1 .. Len(d) - 1 : like_num(d[i]) /\ IsYearToken(d[i + 1])}

IntegerBeforeYearSubstring(d) ==
    {i \in 1 .. Len(d) - 1 :
        like_num(d[i]) /\ IntParses(d[i]) /\ ContainsYear(Lower(d[i + 1]))}

\* C10 as stated: _analyze_experience returns the maximum N over all
\* occurrences of a number N immediately followed by a 'year(s)' token, and
\* 0 when there is none.
ExperienceIsMaxNumberBeforeYear ==
    "experience" \in doc_pc =>
        experience_result
           = SetMax({NumberValue(doc[i]) : i \in NumberBeforeYear(doc)}
                    \cup {0})

\* C10 as amended: _analyze_experience returns the largest of 0 and int(N)
\* over the tokens N that are like_num, that int() parses, and whose next
\* token contains "year" in lower case; number words are skipped and
\* "yearly" counts.
ExperienceIsMaxIntegerBeforeYearSubstring ==
    "experience" \in doc_pc =>
        experience_result
           = SetMax({IntOf(doc[i]) : i \in IntegerBeforeYearSubstring(doc)}
                    \cup {0})

ExperienceWitness ==
    /\ "experience" \in doc_pc
    /\ doc = <<"5", "years", "2", "Yearly">>
    /\ experience_result = 5

----------------------------------------------------------------------------
(* Properties of the route upload_file, under SpecFlask. *)

Answered(r) == reqs[r].pc = "done" /\ reqs[r].response = "result"

\* C1 as stated: when the document is classified as anything other than
\* resume, the analysis call ends in Rejected carrying only document_type,
\* and neither the skill/keyword matcher nor the score aggregator is invoked
\* at any point of that call.
NonResumeRejectedBeforeScoring ==
    \A r \in Requests :
        Answered(r) /\ Classify(Tokenize(reqs[r].resume_text)) # "resume" =>
            /\ reqs[r].calls = <<>>
            /\ DOMAIN reqs[r].result = {"document_type"}

\* C3 as stated: for every pair of upload requests handled in any
\* interleaving, the result returned to each request is computed only from
\* the content of that request's own uploaded document.
ResultFromOwnDocument ==
    \A r \in Requests :
        Answered(r) =>
            /\ reqs[r].result.metrics
                  = analyze_resume(reqs[r].content, clock).metrics
            /\ reqs[r].result.skills
                  = analyze_resume(reqs[r].content, clock).skills

\* C6 as stated: for an empty extracted text the outcome is
\* document_type = unknown and the call is rejected before scoring: the
\* matcher and the aggregator are not invoked and no score is produced.
EmptyTextRejectedAsUnknown ==
    \A r \in Requests :
        Answered(r) /\ Tokenize(reqs[r].resume_text) = EmptyText =>
            /\ "document_type" \in DOMAIN reqs[r].result
            /\ reqs[r].result.document_type = "unknown"
            /\ "metrics" \notin DOMAIN reqs[r].result
            /\ \A i \in 1 .. Len(reqs[r].calls) :
                  reqs[r].calls[i]
                     \notin {"_extract_skills", "_calculate_profile_score"}

\* C7 as stated: analysis is deterministic: two invocations of
\* analyze_resume on the same text return equal results in every field,
\* independent of when they run and of any earlier invocation.
SameTextSameResult ==
    \A r1, r2 \in Requests :
        Answered(r1) /\ Answered(r2)
           /\ reqs[r1].resume_text = reqs[r2].resume_text =>
              reqs[r1].result = reqs[r2].result

----------------------------------------------------------------------------
(* Properties of _handle_file_upload, under SpecApp. *)

Logged(e) == \E i \in 1 .. Len(log) : log[i] = e
TimesLogged(e) == Cardinality({i \in 1 .. Len(log) : log[i] = e})

\* C4 as stated: text extraction for a file whose declared type is neither
\* application/pdf nor the DOCX MIME type fails: it never returns text for
\* such a file, and no analysis is run on it.
UnsupportedTypeNeverExtracted ==
    Logged("_extract_text_from_file") /\ file.type \notin FILE_TYPES =>
        /\ extract_failed
        /\ text = <<>>
        /\ ~Logged("analyze_resume")

\* C5: a failure during text extraction is terminal for that analysis call:
\* the error is reported exactly once, extraction is not attempted again,
\* and analyze_resume, document-type validation and result display are never
\* reached in that call.
ExtractionFailureIsTerminal ==
    extract_failed =>
        /\ app_pc = "done"
        /\ TimesLogged("st.error:read") = 1
        /\ TimesLogged("_extract_text_from_file") = 1
        /\ ~Logged("analyze_resume")
        /\ ~Logged("_validate_document_type")
        /\ ~Logged("_display_analysis_results")
        /\ analysis = NoAnalysis
        /\ shown = NothingShown

ExtractionFailureWitness ==
    /\ extract_failed
    /\ file.type = PDF
    /\ file.data = SkilledResume
    /\ file.parse = "corrupt"
    /\ app_pc = "done"
    /\ log = <<"st.download_button", "_extract_text_from_file",
               "st.error:read">>

----------------------------------------------------------------------------
(* Properties of _extract_skills, under SpecDoc. *)

(* The catalogue entries that occur in d as one whole token or as two      *)
(* adjacent tokens joined by a single space, letter case aside.            *)
CatalogueEntriesIn(d) ==
    {e \in tech_skills :
        \/ \E i \in 1 .. Len(d) : Lower(d[i]) = e
        \/ \E i \in 1 .. Len(d) - 1 :
              Lower(d[i]) \o " " \o Lower(d[i + 1]) = e}

\* C13: for every token sequence, the lower-cased set of skills returned by
\* _extract_skills equals the set of catalogue entries that occur either as
\* one whole token or as two adjacent tokens joined by a single space (a
\* pair ending on the last token included); an entry that is only a proper
\* substring of a token ("java" inside "javascript") is not reported.
SkillsAreCatalogueEntriesPresent ==
    "skills" \in doc_pc =>
        /\ {Lower(k) : k \in skills_result} = CatalogueEntriesIn(doc)
        /\ ("java" \in {Lower(k) : k \in skills_result}
               => \E i \in 1 .. Len(doc) : doc[i] = "java")

SkillsWitness ==
    /\ "skills" \in doc_pc
    /\ doc = <<"javascript", "Python", "Machine", "learning">>
    /\ skills_result = {"javascript", "Python", "machine learning"}

\* C14 as stated: skills_count counts each catalogue skill at most once,
\* however many times and in whatever letter case it occurs in the text;
\* consequently skills_count never exceeds the number of entries in the
\* skill catalogue.
EachSkillCountedOnce ==
    "skills" \in doc_pc =>
        /\ \A e \in tech_skills :
              Cardinality({k \in skills_result : Lower(k) = e}) <= 1
        /\ Cardinality(skills_result) <= Cardinality(tech_skills)

----------------------------------------------------------------------------
(* Properties of _generate_suggestions, under SpecScore. *)

LooksGreat == \E i \in 1 .. Len(suggestions) : suggestions[i] = "fa-star"

\* C17: _generate_suggestions never returns an empty list; the "looks
\* great" message is returned if and only if word_count >= 300, the number
\* of skills >= 8, sentence_count >= 10 and experience_years >= 2, and then
\* it is the only suggestion.
SuggestionsNeverEmpty ==
    score_pc = "suggested" =>
        /\ suggestions # <<>>
        /\ LooksGreat <=> /\ word_count >= 300
                          /\ skills_count >= 8
                          /\ sentence_count >= 10
                          /\ experience_years >= 2
        /\ LooksGreat => suggestions = <<"fa-star">>

SuggestionsWitness ==
    /\ score_pc = "suggested"
    /\ word_count = 300 /\ skills_count = 8
    /\ sentence_count = 10 /\ experience_years = 2
    /\ suggestions = <<"fa-star">>

----------------------------------------------------------------------------
(* Properties of the keyword match, under SpecApp. *)

\* C11: for every text and every role profile the keyword-match result
\* satisfies matched_skills \cup missing_skills = required_skills, and the
\* two sets are disjoint; skills are compared without regard to letter case
\* and listed in the role's spelling.
KeywordMatchPartitionsRequired ==
    "keyword_match" \in DOMAIN analysis =>
        /\ analysis.keyword_match.matched_skills
              \cup analysis.keyword_match.missing_skills
           = role_info.required_skills
        /\ analysis.keyword_match.matched_skills
              \cap analysis.keyword_match.missing_skills = {}

KeywordMatchWitness ==
    /\ "keyword_match" \in DOMAIN analysis
    /\ role_info = BackendRole
    /\ text = SkilledResume
    /\ analysis.keyword_match.matched_skills = {"Python", "SQL"}
    /\ analysis.keyword_match.missing_skills = {"Java"}

(* The required skills of the selected role that the extracted text holds, *)
(* letter case aside.                                                      *)
RequiredSkillsInText ==
    {k \in role_info.required_skills :
        \E i \in 1 .. Len(text) : Lower(text[i]) = Lower(k)}

\* C12: the keyword-match percentage shown is the number of matched
\* required skills over the number of required skills, times 100, rounded
\* to the nearest integer (2 of 3 gives 67), and 0 when the role has no
\* required skills.
KeywordScoreIsRoundedPercentage ==
    "keyword_score" \in DOMAIN shown =>
        LET matched == Cardinality(RequiredSkillsInText)
            total == Cardinality(role_info.required_skills)
            off == matched * 100 - shown.keyword_score * total
        IN  IF total = 0 THEN shown.keyword_score = 0
            ELSE /\ 2 * off <= total
                 /\ 2 * off >= -total

KeywordScoreWitness ==
    /\ "keyword_score" \in DOMAIN shown
    /\ role_info = BackendRole
    /\ Cardinality(RequiredSkillsInText) = 2
    /\ shown.keyword_score = 67

----------------------------------------------------------------------------
(* Properties of the navigation, under SpecApp. *)

PageValues == {"home", "resume_analyzer", "settings", ""}

(* A script run has rendered its page to the end. *)
RunCompleted ==
    /\ ~rerun_requested
    /\ rendered # NotSet
    /\ app_pc \in {"run", "done"}

\* C15: the session's page is always 'home' or 'resume_analyzer';
\* _get_current_page_renderer always yields a renderer, the home renderer
\* for an unrecognised page; the page a completed run has rendered is the
\* one the most recent navigation selected (home before any); and the
\* initial load forces the page to 'home' only once, initial_load staying
\* False once cleared.
NavigationSound ==
    /\ page \in {"home", "resume_analyzer"}
    /\ \A p \in PageValues :
          /\ _get_current_page_renderer(p) \in {"render_home", "render_analyzer"}
          /\ p \notin {"home", "resume_analyzer"}
                => _get_current_page_renderer(p) = "render_home"
    /\ rendered \in {NotSet, "render_home", "render_analyzer"}
    /\ RunCompleted =>
          rendered = IF last_navigation \in {NotSet, "HOME"}
                     THEN "render_home" ELSE "render_analyzer"
    /\ home_forced <= 1
    /\ home_forced = 1 => initial_load = FALSE
    /\ rendered # NotSet => home_forced = 1

NavigationWitness ==
    /\ RunCompleted
    /\ app_pc = "done"
    /\ last_navigation = "RESUME ANALYZER"
    /\ rendered = "render_analyzer"
    /\ page = "resume_analyzer"
    /\ initial_load = FALSE

----------------------------------------------------------------------------
(* Properties of the uploaded stream, under SpecApp. *)

\* C16: within one upload handling, text extraction starts reading at
\* offset 0 whether or not the PDF preview has read the file before it and
\* whether or not the preview found the file empty: the text handed on is
\* the whole text of the file, never a shortened one.
ExtractionReadsFromStart ==
    (Logged("_extract_text_from_file") /\ ~extract_failed
        /\ file.parse = "text")
        => text = file.data

ExtractionAfterEmptyPreviewWitness ==
    /\ Logged("_extract_text_from_file")
    /\ file.type = PDF
    /\ file.data = SkilledResume
    /\ file.parse = "text"
    /\ ~Logged("st.download_button")
    /\ text = SkilledResume

====
